---- MODULE Spec2Model ----
(***************************************************************************)
(* The systemd proxy of boss (src/systemd.go): the three hooks             *)
(* exec-start-pre, exec-start and exec-start-post, the supervision loop    *)
(* monitorTask, the signal relay trySendSignal and reconnect, together     *)
(* with the containerd task, the client connection and the maintenance     *)
(* flag of the service register they act on.                               *)
(***************************************************************************)
EXTENDS Integers, Sequences, FiniteSets, TLC

\* Number of signals the start hook receives in one run.
MaxSignals == 2

\* make(chan os.Signal, 64)
SignalCap == 64

\* The started channel made without a buffer: make(chan error).
StartedCap_Unbuffered == 1 - 1

\* started := make(chan error, 1)
StartedCap == 1

\* The loop of trySendSignal running once too often (i <= 5).
TrySendMax_Six == 5 + 1

\* for i := 0; i < 5; i++ in trySendSignal
TrySendMax == 5

\* The loop of reconnect running once too often (i <= 20).
ReconnectMax_TwentyOne == 20 + 1

\* for i := 0; i < 20; i++ in reconnect
ReconnectMax == 20

SignalSet == {"SIGTERM", "SIGHUP"}

ExitCodes == {0, 137}

\* How many client.Reconnect attempts in a row the daemon refuses when
\* reconnect is called: none, one, all but the last, all of them.
ReconnectFails == {0, 1, ReconnectMax - 1, ReconnectMax}

\* What the runtime and the host answer to the part of the start hook that
\* runs before monitorTask.
SetupOutcomes ==
    {"ok", "noIP", "regErr", "errIDRequired", "notReady", "loadErr", "configErr",
     "newTaskErr", "netErr"}

\* The outcomes in which the start hook reaches setupNetworking: Network.Create
\* returns an IP and every Register succeeds, Create returns no IP, one
\* Register fails, Create fails.
NetOutcomes == {"ok", "noIP", "regErr", "netErr"}

\* The outcomes of setupNetworking that differ from "ok" only in what was
\* attached and registered. monitorTask is not passed the configuration or
\* the IP (line 99), so they are explored without signals, in SpecAttach.
AttachOnly == {"noIP", "regErr"}

\* What the runtime and the host answer to the pre and post hooks: the
\* Before fails (no id, system not ready), resolv.conf or apparmor fails,
\* LoadContainer fails, container.Task fails with something else than
\* not-found, task.Delete fails, or nothing fails.
HookOutcomes ==
    {"ok", "errIDRequired", "notReady", "filesErr", "loadErr", "taskErr", "deleteErr"}

\* The services of the container's configuration (c.Services).
Services == {"http", "metrics"}

NoRet == [status |-> 0, err |-> "none", exit |-> 0]

\* No call of trySendSignal or reconnect being followed. fn: the function
\* called; pc: idle, kill (before a task.Kill), attempt (before a
\* client.Reconnect), returned; i, j: the loop variables of trySendSignal and
\* reconnect; refuse: the attempts the daemon still refuses; fails: those it
\* refused when reconnect was called; live: the connection was live then;
\* kills, recs: the task.Kill and client.Reconnect attempts of the call; err:
\* reconnect's named result; ret: what the call returned.
NoCall ==
    [fn |-> "none", pc |-> "idle", i |-> 0, j |-> 0, refuse |-> 0, fails |-> 0,
     live |-> FALSE, kills |-> 0, recs |-> 0, err |-> "nil", ret |-> "none"]

\* No cleanupPreviousTask call yet.
NoClean == [before |-> "nocall", err |-> "none", deleted |-> FALSE, notFound |-> <<>>]

\* setupNetworking not called.
NoNet ==
    [creates |-> 0, err |-> "none", ip |-> FALSE,
     regCalls |-> [s \in Services |-> 0], regErrs |-> {}]

NoPost ==
    [after |-> "none", setup |-> "none", cleanupErr |-> FALSE, enableCalls |-> 0,
     enableOk |-> FALSE]

VARIABLES
    task,         \* the runtime's task of the container: none, created, running, exited
    conn,         \* the start hook's client connection: live, down
    maint,        \* the maintenance flag of the service register (the health gate)
    pc,           \* position of the start hook process
    signals,      \* the signals channel
    started,      \* the started channel
    startGo,      \* the goroutine running task.Start: none, spawned, sent,
                  \* blocked (in its send)
    wait,         \* the wait channel of the current subscription
    stale,        \* the subscription was made on a connection since replaced
    err,          \* monitorTask's outer err variable
    sig,          \* trySendSignal's s
    i,            \* trySendSignal's i
    ret,          \* what monitorTask (or the hook before it) returned
    received,     \* signals received by the process in this run, in order
    relayed,      \* signals taken from the channel and handed to trySendSignal
    delivered,    \* signals for which task.Kill returned nil
    maxQueued,    \* longest the signals channel has been in this run
    relayRet,     \* what the last trySendSignal call returned
    waitsIssued,  \* successful task.Wait calls of this run
    mtTries,      \* client.Reconnect attempts made by monitorTask's wait case
    deleteCalls,  \* task.Delete calls of monitorTask in this run
    disableCalls, \* DisableMaintainance calls of this run
    startRet,     \* what task.Start returned: pending, nil or an error
    exitCode,     \* the exit code the task reported, -1 while it has not exited
    exitErr,      \* the error of the last ExitStatus monitorTask consumed
    post,         \* the execution of the exec-start-post hook, when it ran last
    lastHook,     \* the hook executed last
    clean,        \* the cleanupPreviousTask calls of the pre and post hooks since
                  \* the last start hook
    net,          \* what setupNetworking did in this run of the start hook
    rc            \* one call of trySendSignal or reconnect followed attempt by
                  \* attempt (SpecRelay)

extVars == <<task, conn, maint>>

chanVars == <<signals, started, startGo, wait, stale>>

sigHist == <<received, relayed, delivered, maxQueued, relayRet>>

hookHist == <<post, lastHook, clean, net, rc>>

runHist == <<waitsIssued, mtTries, deleteCalls, disableCalls, startRet, exitCode,
             exitErr>>

vars == <<task, conn, maint, pc, signals, started, startGo, wait, stale, err, sig, i,
          ret, received, relayed, delivered, maxQueued, relayRet, waitsIssued,
          mtTries, deleteCalls, disableCalls, startRet, exitCode, exitErr, post,
          lastHook, clean, net, rc>>

\* The start hook process is not running.
Ended == {"idle", "exited", "done", "crashed"}

\* monitorTask is in its loop (in the select or inside trySendSignal).
InLoop == {"select", "kill", "reconnect"}

\* errdefs.IsUnavailable(errdefs.FromGRPC(err)); false of a nil error.
isUnavailable(e) == e = "unavailable"

\* reconnect against a daemon that refuses the next `fails` attempts: the
\* error it returns and the client.Reconnect attempts it makes.
reconnect(fails) ==
    [err   |-> IF fails < ReconnectMax THEN "nil" ELSE "unavailable",
     tries |-> IF fails < ReconnectMax THEN fails + 1 ELSE ReconnectMax]

\* The errors a call on the connection can return.
CallErrs == IF conn = "down" THEN {"unavailable"} ELSE {"nil", "other"}

\* The process exit status of the start hook for a return of monitorTask.
ExitOf(status, e) == IF e # "nil" THEN 1 ELSE status % 256

\* The runtime's task after task.Delete(ctx, WithProcessKill) on connection c.
Deleted(delOk, c) == IF delOk /\ c = "live" THEN "none" ELSE task

Init ==
    /\ task = "none"
    /\ conn = "live"
    /\ maint \in BOOLEAN
    /\ pc = "idle"
    /\ signals = <<>>
    /\ started = <<>>
    /\ startGo = "none"
    /\ wait = <<>>
    /\ stale = FALSE
    /\ err = "nil"
    /\ sig = "none"
    /\ i = 0
    /\ ret = NoRet
    /\ received = <<>>
    /\ relayed = <<>>
    /\ delivered = <<>>
    /\ maxQueued = 0
    /\ relayRet = "none"
    /\ waitsIssued = 0
    /\ mtTries = 0
    /\ deleteCalls = 0
    /\ disableCalls = 0
    /\ startRet = "pending"
    /\ exitCode = -1
    /\ exitErr = "none"
    /\ post = NoPost
    /\ lastHook = "none"
    /\ clean = NoClean
    /\ net = NoNet
    /\ rc = NoCall

\* A hook starts as a new process: the channels, the connection and the
\* locals of the previous start hook process are gone.
NewProcess ==
    /\ conn' = "live"
    /\ signals' = <<>>
    /\ started' = <<>>
    /\ startGo' = "none"
    /\ wait' = <<>>
    /\ stale' = FALSE
    /\ err' = "nil"
    /\ sig' = "none"
    /\ i' = 0
    /\ received' = <<>>
    /\ relayed' = <<>>
    /\ delivered' = <<>>
    /\ maxQueued' = 0
    /\ relayRet' = "none"
    /\ waitsIssued' = 0
    /\ mtTries' = 0
    /\ deleteCalls' = 0
    /\ disableCalls' = 0
    /\ startRet' = "pending"
    /\ exitCode' = IF task = "exited" THEN exitCode ELSE -1
    /\ exitErr' = "none"

\* systemdPreSetup, the Before of every hook: the error it returns.
systemdPreSetup(o) ==
    IF o = "errIDRequired" THEN "errIDRequired"
    ELSE IF o = "notReady" THEN "other"
    ELSE "nil"

\* cleanupPreviousTask treating the not-found answer of container.Task as
\* an error like any other.
cleanupPreviousTask_NotFoundErr(o) ==
    IF o = "loadErr" \/ o = "taskErr" \/ task = "none" \/ o = "deleteErr"
    THEN [err |-> "other", task |-> task, deleted |-> task # "none" /\ o = "deleteErr"]
    ELSE [err |-> "nil", task |-> "none", deleted |-> TRUE]

\* cleanupPreviousTask: the error it returns, the runtime's task after it
\* and whether it called task.Delete.
cleanupPreviousTask(o) ==
    IF o = "loadErr" \/ o = "taskErr"
    THEN [err |-> "other", task |-> task, deleted |-> FALSE]
    ELSE IF task = "none" THEN [err |-> "nil", task |-> task, deleted |-> FALSE]
    ELSE IF o = "deleteErr" THEN [err |-> "other", task |-> task, deleted |-> TRUE]
    ELSE [err |-> "nil", task |-> "none", deleted |-> TRUE]

\* The record of a cleanupPreviousTask call: the task it found, what it
\* returned, and the results of the latest consecutive calls (two at most)
\* to which container.Task answered not-found.
Cleaned(o) ==
    [before |-> task,
     err |-> cleanupPreviousTask(o).err,
     deleted |-> cleanupPreviousTask(o).deleted,
     notFound |-> IF task = "none" /\ o \notin {"loadErr", "taskErr"}
                  THEN IF Len(clean.notFound) < 2
                       THEN Append(clean.notFound, cleanupPreviousTask(o).err)
                       ELSE Append(Tail(clean.notFound), cleanupPreviousTask(o).err)
                  ELSE <<>>]

\* setupNetworking leaving its loop at the first Register that fails.
setupNetworking_Break(o, bad) ==
    [creates |-> 1,
     err |-> IF o = "netErr" THEN "other" ELSE "nil",
     ip |-> o \in {"ok", "regErr"},
     regCalls |-> [s \in Services |-> IF o = "ok" \/ (o = "regErr" /\ s = bad)
                                      THEN 1 ELSE 0],
     regErrs |-> IF o = "regErr" THEN {bad} ELSE {}]

\* setupNetworking: Network.Create, then one Register per service when
\* Create returned an IP; bad is the service whose Register fails.
setupNetworking(o, bad) ==
    [creates |-> 1,
     err |-> IF o = "netErr" THEN "other" ELSE "nil",
     ip |-> o \in {"ok", "regErr"},
     regCalls |-> [s \in Services |-> IF o \in {"ok", "regErr"} THEN 1 ELSE 0],
     regErrs |-> IF o = "regErr" THEN {bad} ELSE {}]

\* The exec-start-pre hook: resolv.conf, apparmor, cleanupPreviousTask.
ExecStartPre(o) ==
    /\ pc \in Ended
    /\ pc' = "idle"
    /\ lastHook' = "pre"
    /\ task' = IF systemdPreSetup(o) = "nil" /\ o # "filesErr"
               THEN cleanupPreviousTask(o).task ELSE task
    /\ clean' = IF systemdPreSetup(o) = "nil" /\ o # "filesErr"
                THEN Cleaned(o) ELSE clean
    /\ NewProcess
    /\ ret' = NoRet
    /\ post' = NoPost
    /\ net' = NoNet
    /\ UNCHANGED <<maint, rc>>

\* exec-start-post returning the error of cleanupPreviousTask before it
\* calls EnableMaintainance.
ExecStartPost_ReturnEarly(o, enOk) ==
    /\ pc \in Ended
    /\ o # "filesErr"
    /\ pc' = "idle"
    /\ lastHook' = "post"
    /\ IF systemdPreSetup(o) # "nil"
       THEN /\ post' = [after |-> pc, setup |-> systemdPreSetup(o),
                        cleanupErr |-> FALSE, enableCalls |-> 0, enableOk |-> FALSE]
            /\ UNCHANGED <<task, maint, clean>>
       ELSE /\ task' = cleanupPreviousTask(o).task
            /\ clean' = Cleaned(o)
            /\ IF cleanupPreviousTask(o).err # "nil"
               THEN /\ maint' = maint
                    /\ post' = [after |-> pc, setup |-> "nil", cleanupErr |-> TRUE,
                                enableCalls |-> 0, enableOk |-> FALSE]
               ELSE /\ maint' = IF enOk THEN TRUE ELSE maint
                    /\ post' = [after |-> pc, setup |-> "nil", cleanupErr |-> FALSE,
                                enableCalls |-> 1, enableOk |-> enOk]
    /\ NewProcess
    /\ ret' = NoRet
    /\ net' = NoNet
    /\ UNCHANGED rc

\* The exec-start-post hook: cleanupPreviousTask, then EnableMaintainance
\* whatever cleanupPreviousTask returned. enOk: the register accepts the call.
ExecStartPost(o, enOk) ==
    /\ pc \in Ended
    /\ o # "filesErr"
    /\ pc' = "idle"
    /\ lastHook' = "post"
    /\ IF systemdPreSetup(o) # "nil"
       THEN /\ post' = [after |-> pc, setup |-> systemdPreSetup(o),
                        cleanupErr |-> FALSE, enableCalls |-> 0, enableOk |-> FALSE]
            /\ UNCHANGED <<task, maint, clean>>
       ELSE /\ task' = cleanupPreviousTask(o).task
            /\ clean' = Cleaned(o)
            /\ maint' = IF enOk THEN TRUE ELSE maint
            /\ post' = [after |-> pc, setup |-> "nil",
                        cleanupErr |-> cleanupPreviousTask(o).err # "nil",
                        enableCalls |-> 1, enableOk |-> enOk]
    /\ NewProcess
    /\ ret' = NoRet
    /\ net' = NoNet
    /\ UNCHANGED rc

\* The exec-start hook up to the call of monitorTask: systemdPreSetup, the
\* signals channel, LoadContainer, getConfig, NewTask, setupNetworking.
ExecStartSetup(o, bad) ==
    /\ pc \in Ended
    \* NewTask succeeds only when the container has no task
    /\ o \in NetOutcomes => task = "none"
    /\ lastHook' = "start"
    /\ NewProcess
    /\ net' = IF o \in NetOutcomes THEN setupNetworking(o, bad) ELSE NoNet
    /\ clean' = NoClean
    /\ IF o \in NetOutcomes \ {"netErr"}
       THEN /\ pc' = "monitor"
            /\ task' = "created"
            /\ ret' = NoRet
       ELSE /\ pc' = "exited"
            \* after a setupNetworking error the new task is deleted again
            /\ task' = task
            /\ ret' = [status |-> -1,
                       err |-> IF o = "errIDRequired" THEN o ELSE "other",
                       exit |-> 1]
    /\ post' = NoPost
    /\ UNCHANGED <<maint, rc>>

\* A return of monitorTask that reports the error of the deferred
\* task.Delete when it fails.
Return_DeleteErr(status, e, delOk, c) ==
    /\ pc' = "done"
    /\ ret' = IF delOk /\ c = "live"
              THEN [status |-> status, err |-> e, exit |-> ExitOf(status, e)]
              ELSE [status |-> -1, err |-> "other", exit |-> 1]
    /\ deleteCalls' = deleteCalls + 1
    /\ task' = Deleted(delOk, c)
    /\ sig' = "none"
    /\ i' = 0

\* A return of monitorTask with (status, e): the deferred
\* task.Delete(ctx, WithProcessKill) runs on connection c, then the hook
\* returns e or calls os.Exit(status).
Return(status, e, delOk, c) ==
    /\ pc' = "done"
    /\ ret' = [status |-> status, err |-> e, exit |-> ExitOf(status, e)]
    /\ deleteCalls' = deleteCalls + 1
    /\ task' = Deleted(delOk, c)
    /\ sig' = "none"
    /\ i' = 0

\* monitorTask starting the task before it subscribes with task.Wait.
MonitorEnter_StartFirst(w, delOk) ==
    /\ pc = "monitor"
    /\ w \in CallErrs
    /\ err' = w
    /\ startGo' = "spawned"
    /\ IF w # "nil"
       THEN /\ Return(-1, w, delOk, conn)
            /\ UNCHANGED <<wait, waitsIssued>>
       ELSE /\ pc' = "select"
            /\ wait' = <<>>
            /\ waitsIssued' = 1
            /\ UNCHANGED <<task, ret, deleteCalls, sig, i>>
    /\ UNCHANGED <<conn, maint, signals, started, stale, sigHist, mtTries,
                   disableCalls, startRet, exitCode, exitErr, hookHist>>

\* monitorTask clearing the maintenance flag as soon as it has subscribed,
\* without waiting for the start to complete.
MonitorEnter_Healthy(w, delOk) ==
    /\ pc = "monitor"
    /\ w \in CallErrs
    /\ err' = w
    /\ IF w # "nil"
       THEN /\ Return(-1, w, delOk, conn)
            /\ UNCHANGED <<startGo, wait, waitsIssued, maint>>
       ELSE /\ pc' = "select"
            /\ startGo' = "spawned"
            /\ wait' = <<>>
            /\ waitsIssued' = 1
            /\ maint' = FALSE
            /\ UNCHANGED <<task, ret, deleteCalls, sig, i>>
    /\ UNCHANGED <<conn, signals, started, stale, sigHist, mtTries,
                   disableCalls, startRet, exitCode, exitErr, hookHist>>

\* monitorTask up to its loop: the defer, make(chan error, 1), task.Wait and
\* the goroutine that will run task.Start.
MonitorEnter(w, delOk) ==
    /\ pc = "monitor"
    /\ w \in CallErrs
    /\ err' = w
    /\ IF w # "nil"
       THEN /\ Return(-1, w, delOk, conn)
            /\ UNCHANGED <<startGo, wait, waitsIssued>>
       ELSE /\ pc' = "select"
            /\ startGo' = "spawned"
            /\ wait' = <<>>
            /\ waitsIssued' = 1
            /\ UNCHANGED <<task, ret, deleteCalls, sig, i>>
    /\ UNCHANGED <<conn, maint, signals, started, stale, sigHist, mtTries,
                   disableCalls, startRet, exitCode, exitErr, hookHist>>

\* go func() { started <- task.Start(ctx) }(): the send completes when the
\* buffer of started has room, otherwise the goroutine stays blocked in it.
StartGoroutine(e) ==
    /\ startGo = "spawned"
    /\ pc \in InLoop \cup {"done"}
    /\ e \in CallErrs
    /\ e = "nil" => task = "created"
    /\ task' = IF e = "nil" THEN "running" ELSE task
    /\ startRet' = e
    /\ started' = IF Len(started) < StartedCap THEN Append(started, e) ELSE started
    /\ startGo' = IF Len(started) < StartedCap THEN "sent" ELSE "blocked"
    /\ UNCHANGED <<conn, maint, pc, signals, wait, stale, err, sig, i, ret, sigHist,
                   waitsIssued, mtTries, deleteCalls, disableCalls, exitCode,
                   exitErr, hookHist>>

\* The started case attaching the network once the start is confirmed.
StartCompletion_Attach(disOk, delOk) ==
    /\ pc = "select"
    /\ started # <<>>
    /\ started' = <<>>
    /\ IF Head(started) # "nil"
       THEN /\ Return(-1, Head(started), delOk, conn)
            /\ UNCHANGED <<maint, disableCalls, net>>
       ELSE /\ disableCalls' = disableCalls + 1
            /\ maint' = IF disOk THEN FALSE ELSE maint
            /\ net' = [net EXCEPT !.creates = @ + 1]
            /\ UNCHANGED <<task, pc, ret, deleteCalls, sig, i>>
    /\ UNCHANGED <<conn, signals, startGo, wait, stale, err, sigHist, waitsIssued,
                   mtTries, startRet, exitCode, exitErr, post, lastHook, clean, rc>>

\* The started case calling DisableMaintainance before it tests err.
StartCompletion_NoCheck(disOk, delOk) ==
    /\ pc = "select"
    /\ started # <<>>
    /\ started' = <<>>
    /\ disableCalls' = disableCalls + 1
    /\ maint' = IF disOk THEN FALSE ELSE maint
    /\ IF Head(started) # "nil"
       THEN Return(-1, Head(started), delOk, conn)
       ELSE UNCHANGED <<task, pc, ret, deleteCalls, sig, i>>
    /\ UNCHANGED <<conn, signals, startGo, wait, stale, err, sigHist, waitsIssued,
                   mtTries, startRet, exitCode, exitErr, hookHist>>

\* case err := <-started. disOk: the register accepts DisableMaintainance.
StartCompletion(disOk, delOk) ==
    /\ pc = "select"
    /\ started # <<>>
    /\ started' = <<>>
    /\ IF Head(started) # "nil"
       THEN /\ Return(-1, Head(started), delOk, conn)
            /\ UNCHANGED <<maint, disableCalls>>
       ELSE /\ disableCalls' = disableCalls + 1
            /\ maint' = IF disOk THEN FALSE ELSE maint
            /\ UNCHANGED <<task, pc, ret, deleteCalls, sig, i>>
    /\ UNCHANGED <<conn, signals, startGo, wait, stale, err, sigHist, waitsIssued,
                   mtTries, startRet, exitCode, exitErr, hookHist>>

\* The signals case draining the channel and relaying only the newest
\* signal.
SignalCase_Drain ==
    /\ pc = "select"
    /\ signals # <<>>
    /\ sig' = signals[Len(signals)]
    /\ signals' = <<>>
    /\ relayed' = Append(relayed, signals[Len(signals)])
    /\ i' = 0
    /\ relayRet' = "none"
    /\ pc' = "kill"
    /\ UNCHANGED <<extVars, started, startGo, wait, stale, err, ret, received,
                   delivered, maxQueued, runHist, hookHist>>

\* case s := <-signals: trySendSignal is entered with i = 0.
SignalCase ==
    /\ pc = "select"
    /\ signals # <<>>
    /\ sig' = Head(signals)
    /\ signals' = Tail(signals)
    /\ relayed' = Append(relayed, Head(signals))
    /\ i' = 0
    /\ relayRet' = "none"
    /\ pc' = "kill"
    /\ UNCHANGED <<extVars, started, startGo, wait, stale, err, ret, received,
                   delivered, maxQueued, runHist, hookHist>>

\* The signals case returning the error of trySendSignal from monitorTask
\* instead of logging it: here for a Kill error that is not Unavailable.
TrySendKill_Fatal(k) ==
    /\ pc = "kill"
    /\ k \in CallErrs
    /\ delivered' = IF k = "nil" THEN Append(delivered, sig) ELSE delivered
    /\ relayRet' = IF isUnavailable(k) THEN relayRet ELSE k
    /\ IF k = "nil"
       THEN /\ pc' = "select"
            /\ sig' = "none"
            /\ i' = 0
            /\ UNCHANGED <<task, ret, deleteCalls>>
       ELSE IF ~isUnavailable(k)
       THEN Return(-1, k, TRUE, conn)
       ELSE /\ pc' = "reconnect"
            /\ UNCHANGED <<task, ret, deleteCalls, sig, i>>
    /\ UNCHANGED <<conn, maint, chanVars, err, received, relayed, maxQueued,
                   waitsIssued, mtTries, disableCalls, startRet, exitCode, exitErr,
                   hookHist>>

\* trySendSignal: err := task.Kill(ctx, s) and the two tests on err.
TrySendKill(k) ==
    /\ pc = "kill"
    /\ k \in CallErrs
    /\ delivered' = IF k = "nil" THEN Append(delivered, sig) ELSE delivered
    /\ IF k = "nil" \/ ~isUnavailable(k)
       THEN /\ pc' = "select"
            /\ relayRet' = k
            /\ sig' = "none"
            /\ i' = 0
       ELSE /\ pc' = "reconnect"
            /\ UNCHANGED <<relayRet, sig, i>>
    /\ UNCHANGED <<extVars, chanVars, err, ret, received, relayed, maxQueued,
                   runHist, hookHist>>

\* trySendSignal: reconnect(client), then i++ and the loop test, or
\* return errUnableToSignal.
TrySendReconnect(fails) ==
    /\ pc = "reconnect"
    /\ LET r == reconnect(fails) IN
       /\ conn' = IF r.err = "nil" THEN "live" ELSE conn
       /\ stale' = IF r.err = "nil" THEN TRUE ELSE stale
       /\ IF r.err = "nil" /\ i + 1 < TrySendMax
          THEN /\ pc' = "kill"
               /\ i' = i + 1
               /\ UNCHANGED <<relayRet, sig>>
          ELSE /\ pc' = "select"
               /\ relayRet' = IF r.err # "nil" THEN r.err ELSE "errUnableToSignal"
               /\ sig' = "none"
               /\ i' = 0
    /\ UNCHANGED <<task, maint, signals, started, startGo, wait, err, ret, received,
                   relayed, delivered, maxQueued, runHist, hookHist>>

\* The channel a successful task.Wait returns: it already holds the exit
\* status when the task has exited.
WaitChan == IF task = "exited" THEN <<[code |-> exitCode, err |-> "nil"]>> ELSE <<>>

\* case exit := <-wait. The test after exit.Error() != nil reads the outer
\* err, the one task.Wait assigned, not exit.Error(). fails and w (what the
\* new task.Wait returns) are read only when reconnect is called.
WaitCompletion(fails, w, delOk) ==
    /\ pc = "select"
    /\ wait # <<>>
    /\ exitErr' = Head(wait).err
    /\ IF Head(wait).err # "nil"
       THEN IF ~isUnavailable(err)
            THEN /\ fails = 0 /\ w = "nil"
                 /\ Return(-1, err, delOk, conn)
                 /\ wait' = <<>>
                 /\ UNCHANGED <<conn, err, waitsIssued, mtTries, stale>>
            ELSE LET r == reconnect(fails) IN
                 /\ mtTries' = mtTries + r.tries
                 /\ IF r.err # "nil"
                    THEN /\ w = "nil"
                         /\ Return(-1, r.err, delOk, conn)
                         /\ wait' = <<>>
                         /\ UNCHANGED <<conn, err, waitsIssued, stale>>
                    ELSE /\ conn' = "live"
                         /\ err' = w
                         /\ IF w # "nil"
                            THEN /\ Return(-1, w, delOk, "live")
                                 /\ wait' = <<>>
                                 /\ stale' = TRUE
                                 /\ UNCHANGED waitsIssued
                            ELSE /\ wait' = WaitChan
                                 /\ waitsIssued' = waitsIssued + 1
                                 /\ stale' = FALSE
                                 /\ UNCHANGED <<pc, ret, deleteCalls, task, sig, i>>
       ELSE /\ fails = 0 /\ w = "nil"
            /\ Return(Head(wait).code, "nil", delOk, conn)
            /\ wait' = <<>>
            /\ UNCHANGED <<conn, err, waitsIssued, mtTries, stale>>
    /\ UNCHANGED <<maint, signals, started, startGo, sigHist, disableCalls,
                   startRet, exitCode, hookHist>>

\* signal.Notify(signals): the runtime sends s on the channel without
\* blocking, and drops it when the channel is full.
SignalArrives(s) ==
    /\ pc \in InLoop \cup {"monitor"}
    /\ Len(received) < MaxSignals
    /\ received' = Append(received, s)
    /\ signals' = IF Len(signals) < SignalCap THEN Append(signals, s) ELSE signals
    /\ maxQueued' = IF Len(signals') > maxQueued THEN Len(signals') ELSE maxQueued
    /\ UNCHANGED <<extVars, pc, started, startGo, wait, stale, err, sig, i, ret,
                   relayed, delivered, relayRet, runHist, hookHist>>

\* The task's process exits with code c; the wait subscription, if it is
\* still waiting, gets the exit status.
TaskExits(c) ==
    /\ task = "running"
    /\ task' = "exited"
    /\ exitCode' = c
    /\ wait' = IF pc \in InLoop /\ wait = <<>> /\ conn = "live" /\ ~stale
               THEN <<[code |-> c, err |-> "nil"]>> ELSE wait
    /\ UNCHANGED <<conn, maint, pc, signals, started, startGo, stale, err, sig, i,
                   ret, sigHist, waitsIssued, mtTries, deleteCalls, disableCalls,
                   startRet, exitErr, hookHist>>

\* The connection to the daemon is lost; a wait subscription still waiting
\* on it gets an ExitStatus carrying the connection error.
ConnLost ==
    /\ pc \in InLoop \cup {"monitor"}
    /\ conn = "live"
    /\ conn' = "down"
    /\ wait' = IF pc \in InLoop /\ wait = <<>>
               THEN <<[code |-> 255, err |-> "unavailable"]>> ELSE wait
    /\ UNCHANGED <<task, maint, pc, signals, started, startGo, stale, err, sig, i,
                   ret, sigHist, runHist, hookHist>>

\* The daemon answers the wait subscription with a task-level error.
WaitError ==
    /\ pc \in InLoop
    /\ conn = "live"
    /\ ~stale
    /\ wait = <<>>
    /\ wait' = <<[code |-> 255, err |-> "other"]>>
    /\ UNCHANGED <<extVars, pc, signals, started, startGo, stale, err, sig, i, ret,
                   sigHist, runHist, hookHist>>

\* The start hook process is killed: nothing deferred runs.
Crash ==
    /\ pc \in InLoop \cup {"monitor"}
    /\ pc' = "crashed"
    /\ NewProcess
    /\ UNCHANGED <<task, maint, ret, post, lastHook, clean, rc>>
    /\ net' = NoNet

Next ==
    \/ \E o \in HookOutcomes : ExecStartPre(o)
    \/ \E o \in HookOutcomes, enOk \in BOOLEAN : ExecStartPost(o, enOk)
    \/ \E o \in SetupOutcomes \ AttachOnly, bad \in Services : ExecStartSetup(o, bad)
    \/ \E w \in {"nil", "other", "unavailable"}, delOk \in BOOLEAN : MonitorEnter(w, delOk)
    \/ \E e \in {"nil", "other", "unavailable"} : StartGoroutine(e)
    \/ \E disOk \in BOOLEAN, delOk \in BOOLEAN : StartCompletion(disOk, delOk)
    \/ SignalCase
    \/ \E k \in {"nil", "other", "unavailable"} : TrySendKill(k)
    \/ \E fails \in ReconnectFails : TrySendReconnect(fails)
    \/ \E fails \in ReconnectFails, w \in {"nil", "other"}, delOk \in BOOLEAN :
           WaitCompletion(fails, w, delOk)
    \/ \E s \in SignalSet : SignalArrives(s)
    \/ \E c \in ExitCodes : TaskExits(c)
    \/ ConnLost
    \/ WaitError
    \/ Crash

Spec == Init /\ [][Next]_vars

\* The hooks with every outcome of setupNetworking, no signal being sent to
\* the start hook.
NextAttach ==
    \/ \E o \in HookOutcomes : ExecStartPre(o)
    \/ \E o \in HookOutcomes, enOk \in BOOLEAN : ExecStartPost(o, enOk)
    \/ \E o \in SetupOutcomes, bad \in Services : ExecStartSetup(o, bad)
    \/ \E w \in {"nil", "other", "unavailable"}, delOk \in BOOLEAN : MonitorEnter(w, delOk)
    \/ \E e \in {"nil", "other", "unavailable"} : StartGoroutine(e)
    \/ \E disOk \in BOOLEAN, delOk \in BOOLEAN : StartCompletion(disOk, delOk)
    \/ \E fails \in ReconnectFails, w \in {"nil", "other"}, delOk \in BOOLEAN :
           WaitCompletion(fails, w, delOk)
    \/ \E c \in ExitCodes : TaskExits(c)
    \/ ConnLost
    \/ WaitError
    \/ Crash

SpecAttach == Init /\ [][NextAttach]_vars

\* Every variable but rc.
progVars ==
    <<task, conn, maint, pc, signals, started, startGo, wait, stale, err, sig, i, ret,
      received, relayed, delivered, maxQueued, relayRet, waitsIssued, mtTries,
      deleteCalls, disableCalls, startRet, exitCode, exitErr, post, lastHook, clean,
      net>>

\* trySendSignal is called: i := 0.
CallTrySendSignal ==
    /\ rc.pc \in {"idle", "returned"}
    /\ rc' = [NoCall EXCEPT !.fn = "trySendSignal", !.pc = "kill"]
    /\ UNCHANGED progVars

\* reconnect is called on its own, as monitorTask's wait case does (line
\* 137), against a daemon that refuses the next `fails` attempts; a live
\* connection has a daemon that refuses none.
CallReconnect(fails, live) ==
    /\ rc.pc \in {"idle", "returned"}
    /\ live => fails = 0
    /\ rc' = [NoCall EXCEPT !.fn = "reconnect", !.pc = "attempt", !.refuse = fails,
                            !.fails = fails, !.live = live]
    /\ UNCHANGED progVars

\* One round of trySendSignal's loop up to the call of reconnect:
\* task.Kill answers k; when it answers Unavailable reconnect is entered
\* against a daemon that refuses the next `fails` attempts.
KillAttempt(k, fails) ==
    /\ rc.pc = "kill"
    /\ rc.i < TrySendMax
    /\ rc' = IF k = "nil" \/ ~isUnavailable(k)
             THEN [rc EXCEPT !.kills = @ + 1, !.pc = "returned", !.ret = k]
             ELSE [rc EXCEPT !.kills = @ + 1, !.pc = "attempt", !.j = 0,
                             !.refuse = fails, !.fails = fails, !.err = "nil"]
    /\ UNCHANGED progVars

\* What follows the return of reconnect with error e: its caller's result
\* when it was called on its own, otherwise the rest of trySendSignal's
\* round, i++ and the loop test.
AfterReconnect(r, e) ==
    IF r.fn = "reconnect" THEN [r EXCEPT !.pc = "returned", !.ret = e]
    ELSE IF e # "nil" THEN [r EXCEPT !.pc = "returned", !.ret = e]
    ELSE IF r.i + 1 < TrySendMax THEN [r EXCEPT !.pc = "kill", !.i = @ + 1]
    ELSE [r EXCEPT !.pc = "returned", !.i = @ + 1, !.ret = "errUnableToSignal"]

\* trySendSignal starting its next round without counting the one that
\* ended in a successful reconnect.
ReconnectAttempt_NoCount ==
    /\ rc.pc = "attempt"
    /\ rc.j < ReconnectMax
    /\ rc' = IF rc.refuse = 0
             THEN [AfterReconnect([rc EXCEPT !.recs = @ + 1, !.j = @ + 1, !.err = "nil"],
                                  "nil") EXCEPT !.i = rc.i]
             ELSE IF rc.j + 1 < ReconnectMax
             THEN [rc EXCEPT !.recs = @ + 1, !.j = @ + 1, !.refuse = @ - 1,
                             !.err = "unavailable"]
             ELSE AfterReconnect([rc EXCEPT !.recs = @ + 1, !.j = @ + 1,
                                            !.refuse = @ - 1, !.err = "unavailable"],
                                 "unavailable")
    /\ UNCHANGED progVars

\* One round of reconnect's loop: the sleep, client.Reconnect, return nil
\* when it succeeded; otherwise i++ and the loop test, and return err when
\* the loop is over.
ReconnectAttempt ==
    /\ rc.pc = "attempt"
    /\ rc.j < ReconnectMax
    /\ rc' = IF rc.refuse = 0
             THEN AfterReconnect([rc EXCEPT !.recs = @ + 1, !.j = @ + 1, !.err = "nil"],
                                 "nil")
             ELSE IF rc.j + 1 < ReconnectMax
             THEN [rc EXCEPT !.recs = @ + 1, !.j = @ + 1, !.refuse = @ - 1,
                             !.err = "unavailable"]
             ELSE AfterReconnect([rc EXCEPT !.recs = @ + 1, !.j = @ + 1,
                                            !.refuse = @ - 1, !.err = "unavailable"],
                                 "unavailable")
    /\ UNCHANGED progVars

NextRelay ==
    \/ CallTrySendSignal
    \/ \E fails \in ReconnectFails, live \in BOOLEAN : CallReconnect(fails, live)
    \/ \E k \in {"nil", "other", "unavailable"}, fails \in ReconnectFails :
           KillAttempt(k, fails)
    \/ ReconnectAttempt

\* trySendSignal and reconnect called again and again, every call that
\* their callee makes returning.
SpecRelay == Init /\ [][NextRelay]_vars /\ WF_vars(NextRelay)


----------------------------------------------------------------------------
\* s is t with some elements left out, the order kept.
RECURSIVE IsSubSeq(_, _)
IsSubSeq(s, t) ==
    IF s = <<>> THEN TRUE
    ELSE IF t = <<>> THEN FALSE
    ELSE IF Head(s) = Head(t) THEN IsSubSeq(Tail(s), Tail(t))
    ELSE IsSubSeq(s, Tail(t))

\* C1: monitorTask survives a connection-unavailable wait error whose
\* reconnect succeeds: it ends on such an error only after the 20
\* client.Reconnect attempts of reconnect have all failed, and when the task
\* exits with code c it returns (c, nil).
C1_Claim ==
    /\ (pc = "done" /\ exitErr = "unavailable") => mtTries >= 20
    /\ (pc = "done" /\ exitErr = "nil") => (ret.err = "nil" /\ ret.status = exitCode)

\* C2: every return of monitorTask is (the task's real exit code, nil) or
\* (any status, a non-nil error): a nil error never comes with a status that
\* is not the exit code the task reported.
C2_Claim ==
    (pc = "done" /\ ret.err = "nil") => (exitCode # -1 /\ ret.status = exitCode)

\* C3: after a task-level (non-connection) error on the wait channel
\* monitorTask has called reconnect zero times and has returned a non-nil
\* error.
C3_Claim ==
    (pc = "done" /\ exitErr = "other") => (mtTries = 0 /\ ret.err # "nil")

\* C4: when monitorTask has ended on a connection-unavailable wait error
\* with the connection never re-established, it has returned a non-nil error
\* and has attempted the teardown exactly once.
C4_Claim ==
    (pc = "done" /\ exitErr = "unavailable" /\ conn = "down")
        => (ret.err # "nil" /\ deleteCalls = 1)

\* C5: while monitorTask loops it holds exactly one wait subscription, and
\* after each successful reconnect a new task.Wait has been issued: the
\* subscription held is never one made on a connection since replaced.
C5_Claim ==
    pc = "select" => (waitsIssued >= 1 /\ ~stale)

\* C6: DisableMaintainance is called at most once per run of the start hook,
\* and only after task.Start has returned nil and the start-completion has
\* been consumed from the started channel.
C6_HealthyOnlyAfterStart ==
    /\ disableCalls <= 1
    /\ disableCalls = 1 => (startRet = "nil" /\ startGo = "sent" /\ started = <<>>)

\* C6 witness: the start completed without error and the gate was cleared.
C6_Witness ==
    disableCalls = 1 /\ ~maint /\ task = "running" /\ pc = "select"

\* C7 as claimed: once the task this run confirmed started has exited, the
\* gate is ON.
C7_Claim ==
    (disableCalls = 1 /\ exitCode # -1) => maint

\* C7 as amended: the gate goes OFF only in the step of the start hook that
\* consumes a start-completion without error, with the task started, and
\* goes ON only by the EnableMaintainance of the post-start hook; until that
\* hook runs the gate stays as the start hook left it.
C7_GateWindow ==
    [][/\ (maint /\ ~maint') =>
              (pc = "select" /\ started = <<"nil">> /\ startRet = "nil"
               /\ task \in {"running", "exited"})
       /\ (~maint /\ maint') => (lastHook' = "post" /\ post'.enableOk)]_vars

\* C7 witness: the task has exited, monitorTask has returned its exit code
\* and the gate is still OFF.
C7_Witness ==
    /\ pc = "done" /\ ret.err = "nil" /\ ret.status = exitCode /\ exitCode # -1
    /\ disableCalls = 1 /\ ~maint

\* C8 as claimed: the gate is ON once the post-start hook has run.
C8_Claim ==
    lastHook = "post" => maint

\* C8 as amended: a post-start hook whose Before succeeded has called
\* EnableMaintainance exactly once, whatever cleanupPreviousTask returned
\* and however the start hook ended, and the gate is ON after it when that
\* call succeeded; a post-start hook whose Before failed has not called it.
C8_Rearm ==
    lastHook = "post" =>
        /\ post.setup = "nil" => post.enableCalls = 1
        /\ post.setup # "nil" => post.enableCalls = 0
        /\ post.enableOk => maint

\* C8 witness: the post-start hook ran after the start hook crashed, its
\* cleanupPreviousTask failed, and the gate is ON.
C8_Witness ==
    /\ lastHook = "post" /\ post.after = "crashed" /\ post.cleanupErr
    /\ post.enableOk /\ maint /\ task # "none"

\* C9 as claimed: when monitorTask has returned the exit code of a task it
\* had confirmed started, every signal of a burst (all of them queued before
\* any was processed) has been delivered to the task, in the order received.
C9_Claim ==
    (pc = "done" /\ disableCalls = 1 /\ exitErr = "nil" /\ maxQueued = Len(received))
        => delivered = received

\* C9 as amended: the signals handed to trySendSignal, followed by those
\* still queued, are the signals received, in order (none dropped, none
\* reordered, up to 64 queued); the one being relayed is the last handed
\* over; the signals delivered are, in order, among those handed over, and a
\* relay that returned nil delivered the signal it was handed.
C9_Order ==
    /\ received = relayed \o signals
    /\ pc \in {"kill", "reconnect"} => sig = relayed[Len(relayed)]
    /\ IsSubSeq(delivered, relayed)
    /\ (pc = "select" /\ relayRet = "nil") =>
           (delivered # <<>> /\ delivered[Len(delivered)] = relayed[Len(relayed)])

\* C9 witness: two different signals were queued together and both were
\* delivered, in the order received.
C9_Witness ==
    /\ maxQueued = 2 /\ Len(received) = 2 /\ received[1] # received[2]
    /\ delivered = received

\* C10: in trySendSignal a task.Kill that succeeds returns nil at once; a
\* Kill error that is not Unavailable is returned at once with no reconnect;
\* an Unavailable one is followed by reconnect and, when that succeeds, by
\* the next Kill, with never more than 5 Kill attempts; errUnableToSignal is
\* returned exactly when the fifth Kill failed as Unavailable and the
\* reconnect after it succeeded.
C10_Relay ==
    [][/\ (pc = "kill" /\ delivered' = Append(delivered, sig)) =>
              (pc' = "select" /\ relayRet' = "nil" /\ conn' = conn /\ stale' = stale)
       /\ (pc = "kill" /\ pc' = "select" /\ delivered' = delivered) =>
              (relayRet' = "other" /\ conn = "live" /\ conn' = conn /\ stale' = stale)
       /\ (pc = "kill" /\ pc' = "reconnect") => conn = "down"
       /\ (pc = "kill" /\ conn = "down" /\ pc' \in InLoop /\ pc' # pc) => pc' = "reconnect"
       /\ (pc = "reconnect" /\ pc' = "kill") => (conn' = "live" /\ i' = i + 1)
       /\ (pc = "reconnect" /\ pc' = "select") =>
              /\ relayRet' = "errUnableToSignal" <=> (conn' = "live" /\ i = 4)
              /\ relayRet' = "unavailable" <=> conn' = "down"
       /\ pc' \in {"kill", "reconnect"} => i' < 5]_vars

\* C10 witness: a relay gave up after five Kill attempts.
C10_Witness ==
    pc = "select" /\ relayRet = "errUnableToSignal" /\ conn = "live"


\* C11: an error returned by trySendSignal never ends supervision: no step
\* of the relay returns from monitorTask or changes what it will return,
\* the relay always comes back to the select, and a normal exit consumed
\* from the wait channel afterwards is returned as (exit code, nil).
C11_RelayNotFatal ==
    [][/\ pc \in {"kill", "reconnect"} => (pc' # "done" /\ ret' = ret)
       /\ (pc \in {"kill", "reconnect"} /\ pc' \in InLoop /\ relayRet' # relayRet)
              => pc' = "select"
       /\ (pc = "select" /\ relayRet \notin {"none", "nil"} /\ wait # <<>>
           /\ Head(wait).err = "nil" /\ exitErr' = "nil" /\ pc' = "done")
              => (ret'.err = "nil" /\ ret'.status = Head(wait).code
                  /\ ret'.status = exitCode)]_vars

\* C11 witness: the last relay gave up with errUnableToSignal and
\* monitorTask has since returned the task's exit code.
C11_Witness ==
    /\ pc = "done" /\ relayRet = "errUnableToSignal" /\ exitErr = "nil"
    /\ ret.err = "nil" /\ ret.status = exitCode /\ exitCode # -1

\* What monitorTask returns on each of its exit paths, whatever the deferred
\* task.Delete did: the initial task.Wait failed, the start failed, a wait
\* error was consumed, the task exited.
RetExpected ==
    IF exitErr = "nil" THEN [status |-> exitCode, err |-> "nil", exit |-> exitCode % 256]
    ELSE IF exitErr # "none" THEN [status |-> -1, err |-> err, exit |-> ExitOf(-1, err)]
    ELSE IF waitsIssued = 0 THEN [status |-> -1, err |-> err, exit |-> 1]
    ELSE [status |-> -1, err |-> startRet, exit |-> 1]

\* C14: on every return of monitorTask the teardown task.Delete has been
\* called exactly once, and what monitorTask returns is what its exit path
\* determines, whether the teardown succeeded or not; before it returns the
\* teardown has not been called.
C14_TeardownOnce ==
    /\ pc = "done" => (deleteCalls = 1 /\ ret = RetExpected)
    /\ pc \in InLoop \cup {"monitor"} => deleteCalls = 0

\* C14 witness: the teardown failed (the task is still there) and
\* monitorTask returned the task's exit code all the same.
C14_Witness ==
    /\ pc = "done" /\ deleteCalls = 1 /\ task = "exited"
    /\ ret.err = "nil" /\ ret.status = exitCode

\* C17: task.Start is issued only after task.Wait has returned without
\* error; when the initial task.Wait fails the start goroutine is never
\* spawned, task.Start is never called and monitorTask returns (-1, that
\* error).
C17_WaitBeforeStart ==
    /\ startGo # "none" => waitsIssued >= 1
    /\ startRet # "pending" => waitsIssued >= 1
    /\ (pc = "done" /\ waitsIssued = 0) =>
           (startGo = "none" /\ startRet = "pending" /\ task # "running"
            /\ err # "nil" /\ ret.err = err /\ ret.status = -1)

\* C17 witness: the initial task.Wait failed and monitorTask returned its
\* error without starting the task.
C17_Witness ==
    pc = "done" /\ waitsIssued = 0 /\ ret.err = "other" /\ startGo = "none"

\* C18: whenever monitorTask returns while the start-completion of a failed
\* task.Start is ready on the started channel, it returns that start error,
\* in every interleaving with signals and wait-completions.
C18_Claim ==
    [][(pc = "select" /\ started # <<>> /\ Head(started) # "nil" /\ pc' = "done")
          => (ret'.err = Head(started) /\ disableCalls' = 0 /\ deleteCalls' = 1)]_vars


\* C20: the goroutine that runs task.Start is never blocked in its send on
\* started: once spawned it can always finish, also after monitorTask has
\* returned; it puts exactly one value on the channel, which never holds
\* more than one, and once that value has been received the started case
\* of the select cannot fire again in the same run.
C20_StartNeverBlocks ==
    /\ [](/\ startGo # "blocked"
          /\ Len(started) <= StartedCap
          /\ started # <<>> => (startGo = "sent" /\ started = <<startRet>>)
          /\ startGo = "spawned" =>
                 ENABLED (\E e \in {"nil", "other", "unavailable"} : StartGoroutine(e)))
    /\ [][/\ (started' # started /\ started' # <<>>) =>
                 (startGo = "spawned" /\ startGo' = "sent" /\ started = <<>>)
          /\ (startGo = "sent" /\ started = <<>>) =>
                 (started' = <<>> /\ startGo' \in {"sent", "none"})]_vars

\* C20 witness: monitorTask returned on a wait-completion before the start
\* goroutine sent; the send then completed and its value stays unread.
C20_Witness ==
    /\ pc = "done" /\ startGo = "sent" /\ started = <<startRet>>
    /\ exitErr # "none" /\ disableCalls = 0


C15_CleanupIdempotent ==
    /\ \A k \in 1..Len(clean.notFound) : clean.notFound[k] = "nil"
    /\ clean.notFound # <<>> =>
           (clean.before = "none" /\ clean.err = "nil" /\ ~clean.deleted /\ task = "none")
    /\ (clean.before \notin {"nocall", "none"} /\ clean.err = "nil") =>
           (clean.deleted /\ task = "none")

\* C15 witness: two cleanupPreviousTask calls in a row found no task.
C15_Witness ==
    Len(clean.notFound) = 2 /\ clean.before = "none" /\ task = "none"


\* C16: a call of reconnect makes at most 20 client.Reconnect attempts; it
\* returns nil at the first attempt that succeeds, having made no attempt
\* after it; after 20 failed attempts it returns the error of the last one,
\* which is not nil; called on a live connection it returns nil after one
\* attempt. Its result and its number of attempts are those of reconnect(fails).
C16_ReconnectBounded ==
    /\ rc.j <= 20
    /\ rc.pc = "attempt" => (rc.j < 20 /\ rc.j = rc.fails - rc.refuse /\ rc.refuse >= 0)
    /\ (rc.fn = "reconnect" /\ rc.pc = "returned") =>
           /\ rc.recs = rc.j
           /\ rc.ret = rc.err
           /\ rc.ret = reconnect(rc.fails).err
           /\ rc.j = reconnect(rc.fails).tries
           /\ rc.ret = "nil" => rc.j = rc.fails + 1
           /\ rc.ret # "nil" => (rc.j = 20 /\ rc.fails >= 20)
           /\ rc.fails >= 20 => rc.ret # "nil"
           /\ rc.live => (rc.ret = "nil" /\ rc.j = 1)

\* C16 witness: reconnect has returned an error after 20 failed attempts.
C16_Witness ==
    rc.fn = "reconnect" /\ rc.pc = "returned" /\ rc.j = 20 /\ rc.ret = "unavailable"

\* C19: a call of trySendSignal makes at most 5 task.Kill attempts and at
\* most 100 client.Reconnect attempts, a call of reconnect at most 20
\* attempts, and every call returns.
C19_RelayTerminates ==
    /\ [](/\ rc.kills <= 5 /\ rc.recs <= 100 /\ rc.j <= 20
          /\ rc.fn = "trySendSignal" => (rc.recs <= 20 * rc.kills /\ rc.kills <= rc.i + 1)
          /\ rc.fn = "reconnect" => (rc.kills = 0 /\ rc.recs <= 20))
    /\ (rc.pc \in {"kill", "attempt"}) ~> (rc.pc = "returned")

\* C19 witness: trySendSignal has returned errUnableToSignal after 5
\* task.Kill attempts and 100 client.Reconnect attempts.
C19_Witness ==
    /\ rc.fn = "trySendSignal" /\ rc.pc = "returned" /\ rc.ret = "errUnableToSignal"
    /\ rc.kills = 5 /\ rc.recs = 100

====
